---- MODULE Spec2Model ----
(***************************************************************************)
(* StaticPagesPlugin (src/index.js): a webpack plugin that registers       *)
(* Handlebars partials from a components root, evaluates page scripts from *)
(* a pages root, renders one HTML asset per page and records both roots as *)
(* file dependencies of the compilation.                                   *)
(*                                                                         *)
(* File paths and names are sequences of tokens: a token is "/", ".", "_"  *)
(* or a run of other characters, so `sub/_helper.js` is                    *)
(* <<"sub", "/", "_", "helper", ".", "js">>.  The regular expressions and  *)
(* string tests of the source act on these sequences.                      *)
(***************************************************************************)
EXTENDS Integers, Sequences, FiniteSets, TLC

\* ------------------------------------------------------------- bounds
MaxPages == 2
MaxFragments == 2
MaxPasses == 2

\* ------------------------------------------------------------- constants
DefaultConcurrency == 100

\* ------------------------------------------------------------- strings
\* length of the longest prefix of s holding no token stop: the span that
\* the regular expressions ^[^/]+ and ^[^.]+ match
PrefixLen(s, stop) ==
    IF \E i \in 1..Len(s) : s[i] = stop
    THEN (CHOOSE i \in 1..Len(s) :
              s[i] = stop /\ \A j \in 1..(i - 1) : s[j] # stop) - 1
    ELSE Len(s)

\* file.match(/^[^/]+/): the match, or <<>> for null
MatchLeadingSegment(file) == SubSeq(file, 1, PrefixLen(file, "/"))

\* the match of /^[^.]+/ on the base name of the file only
MatchBaseNameUpToDot(file) ==
    LET slashes == {i \in 1..Len(file) : file[i] = "/"}
        start == IF slashes = {} THEN 1
                 ELSE 1 + CHOOSE i \in slashes : \A j \in slashes : j <= i
        base == SubSeq(file, start, Len(file))
    IN SubSeq(base, 1, PrefixLen(base, "."))

\* file.match(/^[^.]+/): the match, or <<>> for null
MatchUpToDot(file) == SubSeq(file, 1, PrefixLen(file, "."))

\* file.startsWith('_')
StartsWithUnderscore(file) == Len(file) > 0 /\ file[1] = "_"

\* path.resolve(dir, file)
Resolve(dir, file) == dir \o <<"/">> \o file

\* the files of dir that the pattern **/*.<ext> matches, in discovery order
EndsWithExt(path, ext) ==
    /\ Len(path) >= 3
    /\ path[Len(path)] = ext
    /\ path[Len(path) - 1] = "."
    /\ path[Len(path) - 2] # "/"

Glob(dir, ext) == SelectSeq(dir, LAMBDA f : EndsWithExt(f.path, ext))

\* ------------------------------------------------------------- values
ComponentsRoot == <<"/", "components">>
PagesRoot == <<"/", "pages">>

NoData == [component |-> <<>>, title |-> ""]
Data(c) == [component |-> c, title |-> "Hi"]

\* what a page's exported function does when called
FnThrows == [throws |-> TRUE, data |-> NoData]
FnReturns(c) == [throws |-> FALSE, data |-> Data(c)]
NoFn == [throws |-> FALSE, data |-> NoData]

\* what running a page script yields: kind is "throw" (the script throws),
\* "null", "undefined", "primitive", "object" or "function"; an object may
\* carry __esModule and a default, itself "none", "object" or "function"
Value(kind, esModule, default, fn) ==
    [kind |-> kind, esModule |-> esModule, default |-> default, fn |-> fn]

ScriptThrows == Value("throw", FALSE, "none", NoFn)
ScriptNull == Value("null", FALSE, "none", NoFn)
ScriptUndefined == Value("undefined", FALSE, "none", NoFn)
ScriptPrimitive == Value("primitive", FALSE, "none", NoFn)
ScriptObject == Value("object", FALSE, "none", NoFn)
ScriptFunction(fn) == Value("function", FALSE, "none", fn)
ScriptEsmFunction(fn) == Value("object", TRUE, "function", fn)
ScriptEsmObject == Value("object", TRUE, "object", NoFn)

Card == <<"card">>
Hero == <<"hero">>
Missing == <<"missing">>

PageFile(path, script) == [path |-> path, script |-> script]
FragmentFile(path, content) == [path |-> path, content |-> content]

HomeJs == <<"home", ".", "js">>
HomeMinJs == <<"home", ".", "min", ".", "js">>
HelperJs == <<"_", "helper", ".", "js">>
SubHelperJs == <<"sub", "/", "_", "helper", ".", "js">>
SubAboutJs == <<"sub", "/", "about", ".", "js">>

\* the page files a pages root is drawn from, in discovery order
PageUniverse ==
    << PageFile(HelperJs, ScriptObject),
       PageFile(HomeJs, ScriptFunction(FnReturns(Card))),
       PageFile(HomeJs, ScriptThrows),
       PageFile(HomeJs, ScriptFunction(FnThrows)),
       PageFile(HomeMinJs, ScriptFunction(FnReturns(Hero))),
       PageFile(SubHelperJs, ScriptObject),
       PageFile(SubHelperJs, ScriptEsmFunction(FnReturns(Card))),
       PageFile(SubAboutJs, ScriptFunction(FnReturns(Missing))),
       PageFile(SubAboutJs, ScriptFunction(FnReturns(Card))),
       PageFile(SubAboutJs, ScriptNull) >>

Unreadable == "EACCES"

\* the fragment files a components root is drawn from, in discovery order
FragmentUniverse ==
    << FragmentFile(<<"card", ".", "hbs">>, "tplCardRoot"),
       FragmentFile(<<"card", "/", "card", ".", "hbs">>, "tplCard"),
       FragmentFile(<<"hero", "/", "hero", ".", "hbs">>, "tplHero"),
       FragmentFile(<<"hero", "/", "parts", "/", "title", ".", "hbs">>, "tplTitle"),
       FragmentFile(<<"hero", "/", "zero", ".", "hbs">>, ""),
       FragmentFile(<<"locked", ".", "hbs">>, Unreadable) >>

\* the sub-sequences of u of at most n files with pairwise different paths
RECURSIVE SubSeqs(_, _)
SubSeqs(u, n) ==
    IF u = <<>> \/ n = 0 THEN {<<>>}
    ELSE LET without == SubSeqs(Tail(u), n)
             including == {<<Head(u)>> \o s : s \in
                            {t \in SubSeqs(Tail(u), n - 1) :
                                \A i \in 1..Len(t) : t[i].path # Head(u).path}}
         IN without \cup including

\* ------------------------------------------------------------- evaluator
Returned(fn) == [threw |-> FALSE, msg |-> "", fn |-> fn]
Threw(msg) == [threw |-> TRUE, msg |-> msg, fn |-> NoFn]

\* the one default-export unwrap of an ES-module wrapper
Unwrap(newSource) ==
    IF newSource.kind = "object" /\ newSource.esModule /\ newSource.default # "none"
    THEN Value(newSource.default, FALSE, "none", newSource.fn)
    ELSE newSource

\* evaluateCompilationResult(file), script being what running the source
\* of the file yields; reading __esModule of null is a TypeError
evaluateCompilationResult(file, script) ==
    IF file = <<>> THEN Threw("The file is empty")
    ELSE IF script.kind = "throw" THEN Threw("ScriptError")
    ELSE IF script.kind = "null" THEN Threw("TypeError")
    ELSE IF Unwrap(script).kind = "function" THEN Returned(Unwrap(script).fn)
    ELSE Threw("Source not produce an HTML")

\* ------------------------------------------------------------- handler steps
\* the result of one callback of a map: kind "throw" is an exception that
\* leaves the callback, and with it the handler
NoPartials == [n \in {} |-> ""]
NoAssets == [n \in {} |-> [source |-> "", info |-> ""]]

Put(map, key, val) == [k \in DOMAIN map \cup {key} |-> IF k = key THEN val ELSE map[k]]

\* RegisterComponent that keeps the partial a name already has
RegisterComponentFirstWins(file, registry) ==
    IF file.content = Unreadable THEN [threw |-> TRUE, partials |-> registry]
    ELSE IF file.content = "" \/ MatchLeadingSegment(file.path) \in DOMAIN registry
         THEN [threw |-> FALSE, partials |-> registry]
    ELSE [threw |-> FALSE,
          partials |-> Put(registry, MatchLeadingSegment(file.path), file.content)]

\* read components: the callback for one fragment file
RegisterComponent(file, registry) ==
    IF file.content = Unreadable THEN [threw |-> TRUE, partials |-> registry]
    ELSE IF file.content = "" THEN [threw |-> FALSE, partials |-> registry]
    ELSE [threw |-> FALSE,
          partials |-> Put(registry, MatchLeadingSegment(file.path), file.content)]

Entry(kind, name, fn, caught) ==
    [kind |-> kind, name |-> name, fn |-> fn, caught |-> caught]

\* does the read-pages callback leave the file alone?
SkipsPage(path) == StartsWithUnderscore(path)

\* ReadPage without its try and catch: a failed evaluation leaves the callback
ReadPageNoCatch(file) ==
    IF SkipsPage(file.path) THEN Entry("undefined", <<>>, NoFn, "")
    ELSE LET r == evaluateCompilationResult(Resolve(PagesRoot, file.path), file.script)
         IN IF r.threw THEN Entry("throw", <<>>, NoFn, "")
            ELSE Entry("page", MatchUpToDot(file.path), r.fn, "")

\* read pages: the callback for one page file; caught is the error logged
ReadPage(file) ==
    IF SkipsPage(file.path) THEN Entry("undefined", <<>>, NoFn, "")
    ELSE LET r == evaluateCompilationResult(Resolve(PagesRoot, file.path), file.script)
             match == MatchUpToDot(file.path)
         IN IF r.threw THEN Entry("null", <<>>, NoFn, r.msg)
            ELSE IF match = <<>> THEN Entry("null", <<>>, NoFn, "TypeError")
            ELSE Entry("page", match, r.fn, "")

DestRoot == <<"/", "dist">>
Html == <<".", "html">>
NoHtml == [template |-> "", data |-> NoData]
Render(template, data) == [template |-> template, data |-> data]

Rendered(kind, filename, absoluteFilename, html) ==
    [kind |-> kind, filename |-> filename,
     absoluteFilename |-> absoluteFilename, html |-> html]

\* RendPage with the data function and the render in a try and catch
RendPageCaught(page, registry) ==
    IF page.kind # "page" THEN Rendered("undefined", <<>>, <<>>, NoHtml)
    ELSE IF page.fn.throws \/ page.fn.data.component \notin DOMAIN registry
         THEN Rendered("undefined", <<>>, <<>>, NoHtml)
    ELSE Rendered("rendered", page.name \o Html,
                  Resolve(DestRoot, page.name) \o Html,
                  Render(registry[page.fn.data.component], page.fn.data))

\* create page HTML: the callback for one entry of pages
RendPage(page, registry) ==
    IF page.kind # "page" THEN Rendered("undefined", <<>>, <<>>, NoHtml)
    ELSE IF page.fn.throws THEN Rendered("throw", <<>>, <<>>, NoHtml)
    ELSE IF page.fn.data.component \notin DOMAIN registry
         THEN Rendered("throw", <<>>, <<>>, NoHtml)
    ELSE Rendered("rendered", page.name \o Html,
                  Resolve(DestRoot, page.name) \o Html,
                  Render(registry[page.fn.data.component], page.fn.data))

Created(html) == [source |-> html, info |-> "created"]

\* Emits without the getAsset lookup
EmitsEveryRenderedPage(page, store) == page.kind = "rendered"

\* write down html: does the callback emit the rendered page?
Emits(page, store) == page.kind = "rendered" /\ page.filename \notin DOMAIN store

\* WritePage without the getAsset lookup: the rendered page replaces the asset
WritePageOverwrites(page, store) ==
    IF page.kind = "rendered" THEN Put(store, page.filename, Created(page.html))
    ELSE store

\* write down html: the callback for one entry of pagesRend
WritePage(page, store) ==
    IF Emits(page, store) THEN Put(store, page.filename, Created(page.html))
    ELSE store

\* pLimit(this.options.concurrency || 100)
Limit(c) == IF c # 0 THEN c ELSE DefaultConcurrency

\* no call of evaluateCompilationResult has been made
NotCalled == [threw |-> FALSE, msg |-> "not called", fn |-> NoFn]

\* ------------------------------------------------------------- state
VARIABLES
    componentsDir,      \* the files under this.componentsDir, in discovery order
    pagesDir,           \* the files under this.pagesDir, in discovery order
    concurrency,        \* this.options.concurrency, 0 when it is not given
    partials,           \* the partials of the process-wide Handlebars
    afterCompileTaps,   \* number of taps on compiler.hooks.afterCompile
    passNo,             \* compilations finished so far
    pc,                 \* position of the current pass
    thrown,             \* the step whose exception left the handler, or ""
    idx,                \* index of the array element the running map is at
    entered,            \* callbacks of the running map entered so far
    pages,              \* the array pages
    pagesRend,          \* the array pagesRend
    assets,             \* compilation.assets
    fileDependencies,   \* compilation.fileDependencies
    errors,             \* logger.error calls of the pass: [file, msg]
    callbacks,          \* calls of the completion callback in the pass
    evaluated,          \* paths given to evaluateCompilationResult in the pass
    emitted,            \* compilation.emitAsset calls of the pass: [filename, page]
    startAssets,        \* compilation.assets when the handler was called
    rerun,              \* the pass repeats the previous one on its asset store
    edited,             \* a source file changed since the last compilation
    scans,              \* scans of both roots by the afterCompile hook of the pass
    evalFile,           \* the argument of a call of evaluateCompilationResult
    evalScript,         \* what running the source of that file yields
    evalResult          \* what the call returned or threw, "" before it

vars == <<componentsDir, pagesDir, concurrency, partials, afterCompileTaps,
          passNo, pc, thrown, idx, entered, pages, pagesRend,
          assets, fileDependencies, errors, callbacks, evaluated, emitted,
          startAssets, rerun, edited, scans, evalFile, evalScript, evalResult>>

evaluation == <<evalFile, evalScript, evalResult>>

config == <<componentsDir, pagesDir, concurrency>>

HostAsset == [source |-> Render("tplHost", NoData), info |-> "host"]

\* the asset stores a compilation may hold before the handler runs
HostStores == {NoAssets, Put(NoAssets, <<"home">> \o Html, HostAsset)}

Concurrencies == {0, 1}

pageFiles == Glob(pagesDir, "js")
componentFiles == Glob(componentsDir, "hbs")

\* callbacks of the running map that were entered and have not returned
active == IF pc \in {"pages", "rend"} THEN entered - (idx - 1) ELSE 0

\* callbacks that are started without waiting for the previous one
MapCallsAll(enteredSoFar, returnedSoFar) == enteredSoFar >= returnedSoFar

\* Array.prototype.map calls the callback for the next element when the
\* call for the previous one has returned
MapCallsNext(enteredSoFar, returnedSoFar) == enteredSoFar = returnedSoFar

Init ==
    /\ componentsDir \in SubSeqs(FragmentUniverse, MaxFragments)
    /\ pagesDir \in SubSeqs(PageUniverse, MaxPages)
    /\ concurrency \in Concurrencies
    /\ partials = NoPartials
    /\ afterCompileTaps = 0
    /\ passNo = 0
    /\ pc = "idle"
    /\ thrown = ""
    /\ idx = 1
    /\ entered = 0
    /\ pages = <<>>
    /\ pagesRend = <<>>
    /\ assets = NoAssets
    /\ fileDependencies = {}
    /\ errors = <<>>
    /\ callbacks = 0
    /\ evaluated = {}
    /\ emitted = <<>>
    /\ startAssets = NoAssets
    /\ rerun = FALSE
    /\ edited = FALSE
    /\ scans = 0
    /\ evalFile = <<>>
    /\ evalScript = ScriptUndefined
    /\ evalResult = NotCalled

\* compiler.hooks.thisCompilation: a new compilation, the processAssets tap
\* and one more afterCompile tap
ThisCompilation ==
    /\ pc = "idle"
    /\ passNo < MaxPasses
    /\ \E store \in HostStores \cup {assets} :
          /\ assets' = store
          /\ startAssets' = store
          /\ rerun' = (passNo > 0 /\ store = assets /\ ~edited)
    /\ edited' = FALSE
    /\ scans' = 0
    /\ afterCompileTaps' = afterCompileTaps + 1
    /\ pc' = "compilation"
    /\ thrown' = ""
    /\ idx' = 1
    /\ entered' = 0
    /\ pages' = <<>>
    /\ pagesRend' = <<>>
    /\ fileDependencies' = {}
    /\ errors' = <<>>
    /\ callbacks' = 0
    /\ evaluated' = {}
    /\ emitted' = <<>>
    /\ UNCHANGED <<config, evaluation, partials, passNo>>

\* the processAssets handler is called
ProcessAssets ==
    /\ pc = "compilation"
    /\ pc' = "components"
    /\ idx' = 1
    /\ entered' = 0
    /\ UNCHANGED <<config, evaluation, edited, scans, thrown, partials, afterCompileTaps, passNo, pages, pagesRend,
                   assets, fileDependencies, errors, callbacks, evaluated,
                   emitted, startAssets, rerun>>

\* read components, one fragment file
ReadComponent ==
    /\ pc = "components"
    /\ idx <= Len(componentFiles)
    /\ LET r == RegisterComponent(componentFiles[idx], partials)
       IN /\ partials' = r.partials
          /\ pc' = IF r.threw THEN "rejected" ELSE pc
          /\ thrown' = IF r.threw THEN "components" ELSE thrown
    /\ idx' = idx + 1
    /\ UNCHANGED <<config, evaluation, edited, scans, afterCompileTaps, passNo, entered, pages, pagesRend,
                   assets, fileDependencies, errors, callbacks, evaluated,
                   emitted, startAssets, rerun>>

\* read pages begins while fragment files are still to be registered
ReturnsBeforeAllRegistered(i, n) == i >= 1

\* the map of read components returns when its callback has returned for
\* every fragment file
ReturnsWhenAllRegistered(i, n) == i > n

\* read components is over, read pages begins
ComponentsRead ==
    /\ pc = "components"
    /\ ReturnsWhenAllRegistered(idx, Len(componentFiles))
    /\ pc' = "pages"
    /\ idx' = 1
    /\ entered' = 0
    /\ UNCHANGED <<config, evaluation, edited, scans, thrown, partials, afterCompileTaps, passNo, pages, pagesRend,
                   assets, fileDependencies, errors, callbacks, evaluated,
                   emitted, startAssets, rerun>>

\* a callback of read pages or of create page HTML is entered
EnterCallback ==
    /\ pc \in {"pages", "rend"}
    /\ entered < Len(pageFiles)
    /\ MapCallsNext(entered, idx - 1)
    /\ entered' = entered + 1
    /\ UNCHANGED <<config, evaluation, edited, scans, thrown, partials, afterCompileTaps, passNo, pc, idx, pages,
                   pagesRend, assets, fileDependencies, errors, callbacks,
                   evaluated, emitted, startAssets, rerun>>

\* read pages, one page file: the callback returns or throws
ReadPageReturns ==
    /\ pc = "pages"
    /\ idx <= entered
    /\ LET file == pageFiles[idx]
           r == ReadPage(file)
       IN /\ pages' = Append(pages, r)
          /\ errors' = IF r.caught # ""
                       THEN Append(errors, [file |-> file.path, msg |-> r.caught])
                       ELSE errors
          /\ evaluated' = IF SkipsPage(file.path) THEN evaluated
                          ELSE evaluated \cup {file.path}
          /\ pc' = IF r.kind = "throw" THEN "rejected" ELSE pc
          /\ thrown' = IF r.kind = "throw" THEN "pages" ELSE thrown
    /\ idx' = idx + 1
    /\ UNCHANGED <<config, evaluation, edited, scans, partials, afterCompileTaps, passNo, entered, pagesRend,
                   assets, fileDependencies, callbacks, emitted, startAssets, rerun>>

\* read pages is over, create page HTML begins
PagesRead ==
    /\ pc = "pages"
    /\ idx > Len(pageFiles)
    /\ pc' = "rend"
    /\ idx' = 1
    /\ entered' = 0
    /\ UNCHANGED <<config, evaluation, edited, scans, thrown, partials, afterCompileTaps, passNo, pages, pagesRend,
                   assets, fileDependencies, errors, callbacks, evaluated,
                   emitted, startAssets, rerun>>

\* create page HTML, one entry of pages: the callback returns or throws
RendPageReturns ==
    /\ pc = "rend"
    /\ idx <= entered
    /\ LET r == RendPage(pages[idx], partials)
       IN /\ pagesRend' = Append(pagesRend, r)
          /\ pc' = IF r.kind = "throw" THEN "rejected" ELSE pc
          /\ thrown' = IF r.kind = "throw" THEN "rend" ELSE thrown
    /\ idx' = idx + 1
    /\ UNCHANGED <<config, evaluation, edited, scans, partials, afterCompileTaps, passNo, entered, pages,
                   assets, fileDependencies, errors, callbacks, evaluated,
                   emitted, startAssets, rerun>>

\* create page HTML is over, write down html begins
PagesRendered ==
    /\ pc = "rend"
    /\ idx > Len(pages)
    /\ pc' = "write"
    /\ idx' = 1
    /\ entered' = 0
    /\ UNCHANGED <<config, evaluation, edited, scans, thrown, partials, afterCompileTaps, passNo, pages, pagesRend,
                   assets, fileDependencies, errors, callbacks, evaluated,
                   emitted, startAssets, rerun>>

\* write down html, one entry of pagesRend
WriteDown ==
    /\ pc = "write"
    /\ idx <= Len(pagesRend)
    /\ assets' = WritePage(pagesRend[idx], assets)
    /\ emitted' = IF Emits(pagesRend[idx], assets)
                  THEN Append(emitted, [filename |-> pagesRend[idx].filename,
                                        page |-> idx])
                  ELSE emitted
    /\ idx' = idx + 1
    /\ UNCHANGED <<config, evaluation, edited, scans, thrown, partials, afterCompileTaps, passNo, pc, entered, pages,
                   pagesRend, fileDependencies, errors, callbacks, evaluated,
                   startAssets, rerun>>

\* write down html is over: callback()
Callback ==
    /\ pc = "write"
    /\ idx > Len(pagesRend)
    /\ callbacks' = callbacks + 1
    /\ pc' = "sealed"
    /\ UNCHANGED <<config, evaluation, edited, scans, thrown, partials, afterCompileTaps, passNo, idx, entered, pages,
                   pagesRend, assets, fileDependencies, errors, evaluated,
                   emitted, startAssets, rerun>>

\* Dependencies of the files that were built only: no skipped page file, no
\* empty fragment file
DependenciesOfBuiltFiles ==
    {Resolve(PagesRoot, pageFiles[i].path) :
        i \in {k \in 1..Len(pageFiles) : ~SkipsPage(pageFiles[k].path)}}
        \cup {Resolve(ComponentsRoot, componentFiles[i].path) :
                i \in {k \in 1..Len(componentFiles) : componentFiles[k].content # ""}}

\* what one afterCompile tap adds to compilation.fileDependencies
Dependencies ==
    {Resolve(PagesRoot, pageFiles[i].path) : i \in 1..Len(pageFiles)}
        \cup {Resolve(ComponentsRoot, componentFiles[i].path) :
                i \in 1..Len(componentFiles)}

\* compiler.hooks.afterCompile: every tap registered so far runs on the
\* compilation that was sealed
AfterCompile ==
    /\ pc = "sealed"
    /\ fileDependencies' = IF afterCompileTaps > 0
                           THEN fileDependencies \cup Dependencies
                           ELSE fileDependencies
    /\ scans' = scans + afterCompileTaps
    /\ pc' = "idle"
    /\ passNo' = passNo + 1
    /\ UNCHANGED <<config, evaluation, edited, thrown, partials, afterCompileTaps, idx, entered, pages,
                   pagesRend, assets, errors, callbacks, evaluated, emitted,
                   startAssets, rerun>>

\* s without its element i
Remove(s, i) == SubSeq(s, 1, i - 1) \o SubSeq(s, i + 1, Len(s))

\* between two compilations of a watch, a fragment file is deleted
DeleteFragmentFile ==
    /\ pc = "idle"
    /\ passNo \in 1..(MaxPasses - 1)
    /\ ~edited
    /\ \E i \in 1..Len(componentsDir) : componentsDir' = Remove(componentsDir, i)
    /\ edited' = TRUE
    /\ UNCHANGED <<pagesDir, concurrency, evaluation, scans, thrown, partials,
                   afterCompileTaps, passNo, pc, idx, entered, pages, pagesRend,
                   assets, fileDependencies, errors, callbacks, evaluated,
                   emitted, startAssets, rerun>>

\* between two compilations of a watch, a fragment file becomes empty
TruncateFragmentFile ==
    /\ pc = "idle"
    /\ passNo \in 1..(MaxPasses - 1)
    /\ ~edited
    /\ \E i \in 1..Len(componentsDir) :
          /\ componentsDir[i].content \notin {"", Unreadable}
          /\ componentsDir' = [componentsDir EXCEPT ![i].content = ""]
    /\ edited' = TRUE
    /\ UNCHANGED <<pagesDir, concurrency, evaluation, scans, thrown, partials,
                   afterCompileTaps, passNo, pc, idx, entered, pages, pagesRend,
                   assets, fileDependencies, errors, callbacks, evaluated,
                   emitted, startAssets, rerun>>

Next ==
    \/ ThisCompilation
    \/ DeleteFragmentFile
    \/ TruncateFragmentFile
    \/ ProcessAssets
    \/ ReadComponent
    \/ ComponentsRead
    \/ EnterCallback
    \/ ReadPageReturns
    \/ PagesRead
    \/ RendPageReturns
    \/ PagesRendered
    \/ WriteDown
    \/ Callback
    \/ AfterCompile

Spec == Init /\ [][Next]_vars

TypeOK ==
    /\ pc \in {"idle", "compilation", "components", "pages", "rend", "write",
               "sealed", "rejected"}
    /\ passNo \in 0..MaxPasses
    /\ active \in 0..Len(pageFiles)
    /\ callbacks \in 0..1

\* ------------------------------------------------------------- evaluator alone
\* the arguments of evaluateCompilationResult: the empty path and absolute
\* paths of page files
EvalFiles ==
    {<<>>, Resolve(PagesRoot, HomeJs), Resolve(PagesRoot, HomeMinJs),
     Resolve(PagesRoot, SubAboutJs)}

Fns == {FnThrows, FnReturns(Card), FnReturns(Hero), FnReturns(Missing)}

\* what running a page script may yield
ScriptValues ==
    {ScriptThrows, ScriptNull, ScriptUndefined, ScriptPrimitive}
        \cup {ScriptFunction(fn) : fn \in Fns}
        \cup {Value("object", e, d, NoFn) :
                e \in BOOLEAN, d \in {"none", "object", "primitive"}}
        \cup {Value("object", e, "function", fn) : e \in BOOLEAN, fn \in Fns}

EvalInit ==
    /\ componentsDir = <<>>
    /\ pagesDir = <<>>
    /\ concurrency = 0
    /\ partials = NoPartials
    /\ afterCompileTaps = 0
    /\ passNo = 0
    /\ pc = "idle"
    /\ thrown = ""
    /\ idx = 1
    /\ entered = 0
    /\ pages = <<>>
    /\ pagesRend = <<>>
    /\ assets = NoAssets
    /\ fileDependencies = {}
    /\ errors = <<>>
    /\ callbacks = 0
    /\ evaluated = {}
    /\ emitted = <<>>
    /\ startAssets = NoAssets
    /\ rerun = FALSE
    /\ edited = FALSE
    /\ scans = 0
    /\ evalFile \in EvalFiles
    /\ evalScript \in ScriptValues
    /\ evalResult = NotCalled

\* one call of evaluateCompilationResult
Evaluate ==
    /\ evalResult = NotCalled
    /\ evalResult' = evaluateCompilationResult(evalFile, evalScript)
    /\ UNCHANGED <<config, evalFile, evalScript, edited, scans, thrown, partials,
                   afterCompileTaps, passNo, pc, idx, entered, pages, pagesRend,
                   assets, fileDependencies, errors, callbacks, evaluated,
                   emitted, startAssets, rerun>>

EvalNext == Evaluate

EvalSpec == EvalInit /\ [][EvalNext]_vars

\* ------------------------------------------------------------- properties
\* the handler has returned or an exception has left it
HandlerEnded == pc \in {"sealed", "rejected"}

\* read pages has gone through every page file of the pass
PagesPhaseOver == pc \in {"rend", "write", "sealed"} \/ thrown = "rend"

Indices == 1..Len(pageFiles)

ErrorsFor(path) == {k \in 1..Len(errors) : errors[k].file = path}
EmitsBy(i) == {k \in 1..Len(emitted) : emitted[k].page = i}
EmitsOf(filename) == {k \in 1..Len(emitted) : emitted[k].filename = filename}

\* the page file is one whose script evaluates to a function
Evaluates(file) ==
    ~evaluateCompilationResult(Resolve(PagesRoot, file.path), file.script).threw

\* the exported function of the page file throws when it is called
DataFunctionThrows(file) ==
    /\ Evaluates(file)
    /\ evaluateCompilationResult(Resolve(PagesRoot, file.path), file.script).fn.throws

\* the page file evaluates and its descriptor names a registered fragment
Renders(file) ==
    /\ Evaluates(file)
    /\ ~DataFunctionThrows(file)
    /\ evaluateCompilationResult(Resolve(PagesRoot, file.path),
                                 file.script).fn.data.component \in DOMAIN partials

OutputName(file) == MatchUpToDot(file.path) \o Html

\* every fragment file of the components root can be read
FragmentsReadable ==
    \A i \in 1..Len(componentFiles) : componentFiles[i].content # Unreadable

\* C1: in every pass, whatever the (readable) fragment files and the page
\* files are, page scripts that throw, data functions that throw and pages
\* naming an unregistered fragment included, the completion callback has
\* been called exactly once when the handler has ended, so the host build is
\* not left waiting.
C1_CallbackCalledOnce == (HandlerEnded /\ FragmentsReadable) => callbacks = 1

\* C2: if the data function of a page was called and threw, then when the
\* handler has ended no asset was emitted for that page, exactly one error
\* was logged for it, and every other page that evaluates and renders has
\* its asset in the store.
C2_ThrowingDataFunctionIsolated ==
    HandlerEnded =>
        \A i \in 1..Len(pagesRend) :
            (pages[i].kind = "page" /\ pages[i].fn.throws) =>
                /\ EmitsBy(i) = {}
                /\ Cardinality(ErrorsFor(pageFiles[i].path)) = 1
                /\ \A j \in Indices \ {i} :
                      (~SkipsPage(pageFiles[j].path) /\ Renders(pageFiles[j])) =>
                          OutputName(pageFiles[j]) \in DOMAIN assets

\* the page file is evaluated and the evaluation fails
EvalFails(file) == ~SkipsPage(file.path) /\ ~Evaluates(file)

\* the handler from read pages on, as a function of the page files, the
\* registry and the asset store: the arrays of the three maps and the store
ReadAll(files) == [i \in 1..Len(files) |-> ReadPage(files[i])]

RECURSIVE RendAll(_, _)
RendAll(entries, registry) ==
    IF entries = <<>> THEN <<>>
    ELSE LET r == RendPage(Head(entries), registry)
         IN IF r.kind = "throw" THEN <<r>>
            ELSE <<r>> \o RendAll(Tail(entries), registry)

RECURSIVE WriteAll(_, _)
WriteAll(rendered, store) ==
    IF rendered = <<>> THEN store
    ELSE WriteAll(Tail(rendered), WritePage(Head(rendered), store))

PassOutcome(files, registry, store) ==
    LET rendered == RendAll(ReadAll(files), registry)
    IN IF \E i \in 1..Len(rendered) : rendered[i].kind = "throw"
       THEN [rejected |-> TRUE, assets |-> store]
       ELSE [rejected |-> FALSE, assets |-> WriteAll(rendered, store)]

WithoutFailingPages == SelectSeq(pageFiles, LAMBDA f : ~EvalFails(f))

\* C3: if evaluating a page script fails (it throws, or yields no function),
\* the failure is logged once, the page yields null and no output, every
\* sibling is still evaluated, and the pass ends (returned or thrown, and
\* with which assets) exactly as it does on the page files without the
\* failing ones.
C3_EvaluationFailureIsolated ==
    (HandlerEnded /\ thrown # "components") =>
        /\ Len(pages) = Len(pageFiles)
        /\ \A i \in Indices :
              EvalFails(pageFiles[i]) =>
                  /\ pages[i].kind = "null"
                  /\ Cardinality(ErrorsFor(pageFiles[i].path)) = 1
                  /\ EmitsBy(i) = {}
        /\ \A j \in Indices :
              (~SkipsPage(pageFiles[j].path) /\ ~EvalFails(pageFiles[j])) =>
                  /\ pages[j].kind = "page"
                  /\ pageFiles[j].path \in evaluated
        /\ [rejected |-> pc = "rejected", assets |-> assets]
              = PassOutcome(WithoutFailingPages, partials, startAssets)

\* a pass that returned, with a page whose evaluation failed and a sibling
\* whose asset was emitted
C3_Witness ==
    /\ pc = "sealed"
    /\ \E i, j \in Indices : EvalFails(pageFiles[i]) /\ EmitsBy(j) # {}

\* the names that the readable, non-empty fragment files are registered under
FragmentNames ==
    {MatchLeadingSegment(componentFiles[i].path) :
        i \in {k \in 1..Len(componentFiles) : componentFiles[k].content # ""}}

\* no two page files derive one page name, no two fragment files one name
NoCollisions ==
    /\ \A i, j \in Indices :
          (i # j /\ ~SkipsPage(pageFiles[i].path) /\ ~SkipsPage(pageFiles[j].path))
              => OutputName(pageFiles[i]) # OutputName(pageFiles[j])
    /\ \A i, j \in 1..Len(componentFiles) :
          i # j => MatchLeadingSegment(componentFiles[i].path)
                      # MatchLeadingSegment(componentFiles[j].path)

\* the assets C4 expects of a pass
ExpectedOutputs ==
    {OutputName(pageFiles[i]) :
        i \in {k \in Indices :
                 /\ ~SkipsPage(pageFiles[k].path)
                 /\ Evaluates(pageFiles[k])
                 /\ ~DataFunctionThrows(pageFiles[k])
                 /\ evaluateCompilationResult(Resolve(PagesRoot, pageFiles[k].path),
                        pageFiles[k].script).fn.data.component \in FragmentNames}}

\* no page file of the pass has a data function that throws
NoDataFunctionThrows == \A i \in Indices : ~DataFunctionThrows(pageFiles[i])

\* C4: for readable fragment files and page files with no name collisions,
\* no throwing data function and an empty asset store, when the handler has
\* ended the emitted assets are exactly the <pageName>.html of the pages
\* that are not skipped, evaluate to a function and name a registered
\* fragment, each emitted once: a page that names a missing fragment removes
\* no other page's output.
C4_ExactlyTheRenderablePages ==
    (HandlerEnded /\ FragmentsReadable /\ NoCollisions /\ NoDataFunctionThrows
        /\ startAssets = NoAssets) =>
        /\ {emitted[k].filename : k \in 1..Len(emitted)} = ExpectedOutputs
        /\ \A name \in ExpectedOutputs : Cardinality(EmitsOf(name)) = 1

CardHbs == FragmentFile(<<"card", ".", "hbs">>, "tplCardRoot")
HomeCard == PageFile(HomeJs, ScriptFunction(FnReturns(Card)))

\* C5: with card.hbs directly under the components root as the only
\* fragment file, the registry holds its content under the name card once
\* read components is over, and a pass over the page home.js, whose data
\* function returns component card, ends with the asset home.html rendered
\* from that fragment.
C5_RootFragmentNamedCard ==
    (componentFiles = <<CardHbs>> /\ pageFiles = <<HomeCard>>
        /\ startAssets = NoAssets) =>
        /\ pc \in {"pages", "rend", "write", "sealed", "rejected"} =>
              /\ Card \in DOMAIN partials
              /\ partials[Card] = "tplCardRoot"
        /\ HandlerEnded =>
              /\ <<"home">> \o Html \in DOMAIN assets
              /\ assets[<<"home">> \o Html]
                    = Created(Render("tplCardRoot", Data(Card)))

\* C6: no step of the handler changes or removes an asset that is in the
\* store, emitAsset is called only for a filename the store does not hold,
\* and a pass that repeats the previous one on unchanged sources and on the
\* asset store that pass left ends with the store as it found it.
C6_ExistingAssetsKept ==
    /\ [][pc # "idle" =>
            /\ \A f \in DOMAIN assets :
                  f \in DOMAIN assets' /\ assets'[f] = assets[f]
            /\ emitted' # emitted =>
                  /\ Len(emitted') = Len(emitted) + 1
                  /\ emitted'[Len(emitted')].filename \notin DOMAIN assets]_vars
    /\ []((rerun /\ HandlerEnded) => assets = startAssets)

\* a repeated pass that returned, on a store that holds an asset of a page
\* and the host's asset under the name of another page's output
C6_Witness ==
    /\ rerun
    /\ pc = "sealed"
    /\ \E f \in DOMAIN assets : assets[f].info = "created"
    /\ \E i \in 1..Len(pagesRend) :
          /\ pagesRend[i].kind = "rendered"
          /\ pagesRend[i].filename \in DOMAIN assets
          /\ assets[pagesRend[i].filename] = HostAsset

\* the first page file in discovery order, evaluated or not, that derives
\* the output name
FirstDeriving(filename) ==
    CHOOSE i \in Indices :
        /\ ~SkipsPage(pageFiles[i].path) /\ OutputName(pageFiles[i]) = filename
        /\ \A j \in 1..(i - 1) :
              SkipsPage(pageFiles[j].path) \/ OutputName(pageFiles[j]) # filename

\* C7 as claimed: no output filename is emitted more than once in a pass,
\* and of the page files that derive one page name only the first in
\* discovery order has its HTML emitted.
C7_FirstPageFileWins ==
    \A k \in 1..Len(emitted) :
        /\ Cardinality(EmitsOf(emitted[k].filename)) = 1
        /\ emitted[k].page = FirstDeriving(emitted[k].filename)

\* the first entry of pages that is a page of the output name
FirstEvaluated(filename) ==
    CHOOSE i \in 1..Len(pages) :
        /\ pages[i].kind = "page" /\ pages[i].name \o Html = filename
        /\ \A j \in 1..(i - 1) :
              pages[j].kind # "page" \/ pages[j].name \o Html # filename

\* C7 as amended: no output filename is emitted more than once in a pass;
\* of the page files that derive one page name, only the first in discovery
\* order among those whose script evaluated to a function has its HTML
\* emitted, and the others are skipped without error: every logged error is
\* that of a page whose evaluation failed.
C7_FirstEvaluatedPageWins ==
    /\ \A k \in 1..Len(emitted) :
          /\ Cardinality(EmitsOf(emitted[k].filename)) = 1
          /\ emitted[k].page = FirstEvaluated(emitted[k].filename)
    /\ \A k \in 1..Len(errors) :
          \E i \in Indices :
              pageFiles[i].path = errors[k].file /\ EvalFails(pageFiles[i])

\* a pass that returned with two rendered pages of one filename, the first
\* of them emitted
C7_Witness ==
    /\ pc = "sealed"
    /\ \E i, j \in 1..Len(pagesRend) :
          /\ i < j
          /\ pagesRend[i].kind = "rendered" /\ pagesRend[j].kind = "rendered"
          /\ pagesRend[i].filename = pagesRend[j].filename
          /\ EmitsBy(i) # {}

\* the base name of a path: what follows its last "/"
BaseName(path) ==
    IF \E i \in 1..Len(path) : path[i] = "/"
    THEN SubSeq(path, 1 + CHOOSE i \in 1..Len(path) :
                            path[i] = "/" /\ \A j \in (i + 1)..Len(path) : path[j] # "/",
                Len(path))
    ELSE path

\* C8: a page file whose base name begins with an underscore, at any depth
\* under the pages root, is never evaluated, emits no asset and has no
\* error logged.
C8_UnderscoreFilesIgnored ==
    \A i \in Indices :
        StartsWithUnderscore(BaseName(pageFiles[i].path)) =>
            /\ pageFiles[i].path \notin evaluated
            /\ EmitsBy(i) = {}
            /\ ErrorsFor(pageFiles[i].path) = {}

\* the dependency-recording step of a pass has run
DependenciesRecorded == pc = "idle" /\ passNo > 0

\* C9: after the dependency-recording step of a pass, fileDependencies holds
\* the absolute path of every page file under the pages root and of every
\* fragment file under the components root: helper files, empty fragment
\* files and page files whose evaluation failed included.
C9_EveryFileIsADependency ==
    DependenciesRecorded =>
        /\ \A i \in 1..Len(pagesDir) :
              EndsWithExt(pagesDir[i].path, "js") =>
                  Resolve(PagesRoot, pagesDir[i].path) \in fileDependencies
        /\ \A i \in 1..Len(componentsDir) :
              EndsWithExt(componentsDir[i].path, "hbs") =>
                  Resolve(ComponentsRoot, componentsDir[i].path) \in fileDependencies

\* dependencies recorded after a pass over a helper file, a page whose
\* evaluation failed and an empty fragment file
C9_Witness ==
    /\ DependenciesRecorded
    /\ \E i, j \in Indices :
          SkipsPage(pageFiles[i].path) /\ EvalFails(pageFiles[j])
    /\ \E i \in 1..Len(componentFiles) : componentFiles[i].content = ""
    /\ errors # <<>>

\* C10: at every instant of a pass, the page-build callbacks that were
\* entered and have not returned are at most the configured concurrency
\* (100 when none is configured), so at most one with concurrency 1.
C10_ActiveWithinLimit ==
    /\ active <= Limit(concurrency)
    /\ concurrency = 1 => active <= 1

\* a page build is running, with concurrency 1 and a second page waiting
C10_Witness ==
    /\ concurrency = 1
    /\ active = 1
    /\ Len(pageFiles) >= 2
    /\ idx = 1

\* C11: each page build is a task of the concurrency limiter: while fewer
\* page builds are in flight than the configured concurrency and a page
\* build is still to be started, the next one can start, so that with a
\* limit above one, page builds overlap and the limit decides the schedules.
C11_LimiterAdmitsUpToLimit ==
    (pc \in {"pages", "rend"} /\ entered < Len(pageFiles)
        /\ active < Limit(concurrency)) => ENABLED EnterCallback

\* t is s truncated at its first "."
TruncatedAtFirstDot(s, t) ==
    \E n \in 0..Len(s) :
        /\ t = SubSeq(s, 1, n)
        /\ \A j \in 1..n : s[j] # "."
        /\ n = Len(s) \/ s[n + 1] = "."

PageBuildingBegun ==
    pc \in {"pages", "rend", "write", "sealed"} \/ thrown \in {"pages", "rend"}

\* C13: in every pass each registration of a fragment happens before the
\* first page script is evaluated and before the first render, and from the
\* moment page building begins the registry holds a registration for every
\* non-empty fragment file of the pass.
C13_RegistrationBeforePageBuilding ==
    /\ [][partials' # partials =>
            (pc = "components" /\ evaluated = {} /\ pages = <<>>
                /\ pagesRend = <<>>)]_vars
    /\ [](PageBuildingBegun =>
            \A i \in 1..Len(componentFiles) :
                componentFiles[i].content # "" =>
                    /\ MatchLeadingSegment(componentFiles[i].path) \in DOMAIN partials
                    /\ \E j \in 1..Len(componentFiles) :
                          /\ MatchLeadingSegment(componentFiles[j].path)
                                = MatchLeadingSegment(componentFiles[i].path)
                          /\ partials[MatchLeadingSegment(componentFiles[i].path)]
                                = componentFiles[j].content)

\* a page is rendered in a pass that registered two fragments
C13_Witness ==
    /\ pc = "rend"
    /\ \E i \in 1..Len(pagesRend) : pagesRend[i].kind = "rendered"
    /\ Len(componentFiles) = 2
    /\ Cardinality(DOMAIN partials) = 2

\* the content that the fragment files of the pass give the name: that of
\* the last non-empty file in discovery order that derives it
ContentOf(name) ==
    LET files == {i \in 1..Len(componentFiles) :
                    /\ componentFiles[i].content # ""
                    /\ MatchLeadingSegment(componentFiles[i].path) = name}
    IN componentFiles[CHOOSE i \in files : \A j \in files : j <= i].content

\* C14: the registry is re-created on every pass: when page building starts
\* in a pass, the registry holds exactly the fragments registered from the
\* files that are under the components root in that pass, so a fragment
\* whose file was deleted or became empty after the previous pass is no
\* longer resolvable.
C14_RegistryOfThePassOnly ==
    pc = "pages" =>
        /\ DOMAIN partials = FragmentNames
        /\ \A name \in FragmentNames : partials[name] = ContentOf(name)

\* C15: the dependency-recording step runs exactly once per compilation
\* pass: after every pass of a watch, the scan of both roots has run once
\* for that pass, not a number of times that grows with the passes.
C15_OneScanPerPass == DependenciesRecorded => scans = 1

\* the script result is callable after the one default-export unwrap
CallableAfterUnwrap(v) ==
    \/ v.kind = "function"
    \/ v.kind = "object" /\ v.esModule /\ v.default = "function"

\* C16: evaluate returns a function or fails: an empty path fails with "The
\* file is empty"; a script result that is not callable after the single
\* default-export unwrap (null, undefined, a primitive, a plain object, an
\* ES-module wrapper whose default is no function) fails with "Source did
\* not produce an HTML"; no non-callable value is ever returned.
C16_EvaluateReturnsFunctionOrFails ==
    evalResult # NotCalled =>
        /\ evalFile = <<>> =>
              evalResult.threw /\ evalResult.msg = "The file is empty"
        /\ (evalFile # <<>> /\ evalScript.kind # "throw"
                /\ ~CallableAfterUnwrap(evalScript)) =>
              evalResult.threw /\ evalResult.msg = "Source did not produce an HTML"
        /\ ~evalResult.threw => CallableAfterUnwrap(evalScript)

\* C17: a fragment file whose content is empty or cannot be read is not
\* fatal: read components never ends the pass with an exception, and once
\* page building has begun every other fragment file is registered.
C17_BadFragmentNotFatal ==
    /\ thrown # "components"
    /\ PageBuildingBegun =>
          \A i \in 1..Len(componentFiles) :
              componentFiles[i].content \notin {"", Unreadable} =>
                  MatchLeadingSegment(componentFiles[i].path) \in DOMAIN partials

\* C18: when several fragment files derive one registration name, after
\* registration the registry maps the name to the content of the last of
\* them in discovery order that is not empty; a registration replaces the
\* entry of its name and changes the entry of no other name.
C18_LastRegistrationWins ==
    /\ [](PageBuildingBegun =>
            \A name \in FragmentNames :
                name \in DOMAIN partials /\ partials[name] = ContentOf(name))
    /\ [][partials' # partials =>
            \E name \in DOMAIN partials' :
                /\ DOMAIN partials' = DOMAIN partials \cup {name}
                /\ \A n \in DOMAIN partials \ {name} : partials'[n] = partials[n]]_vars

\* page building has begun after two non-empty fragment files of one name
\* were read: the later one is registered
C18_Witness ==
    /\ PageBuildingBegun
    /\ \E i, j \in 1..Len(componentFiles) :
          /\ i < j
          /\ MatchLeadingSegment(componentFiles[i].path) = Hero
          /\ MatchLeadingSegment(componentFiles[j].path) = Hero
          /\ componentFiles[i].content # ""
          /\ componentFiles[j].content # ""
          /\ partials[Hero] = componentFiles[j].content

\* C19: emission is all-or-nothing with respect to the render phase: an
\* asset is emitted only when every page of the pass that was not skipped
\* and evaluated has had its data function called and its HTML rendered,
\* and when a data function or a render throws, no asset is emitted in the
\* pass and the asset store is left as it was.
C19_EmissionAfterAllRendered ==
    /\ emitted # <<>> =>
          /\ Len(pagesRend) = Len(pageFiles)
          /\ \A i \in 1..Len(pages) :
                pages[i].kind = "page" => pagesRend[i].kind = "rendered"
    /\ ((\E i \in 1..Len(pagesRend) : pagesRend[i].kind = "throw")
            \/ thrown = "rend") =>
          emitted = <<>> /\ assets = startAssets

\* a pass in which one page was rendered and the render of a later one threw
C19_Witness ==
    /\ thrown = "rend"
    /\ \E i \in 1..Len(pagesRend) : pagesRend[i].kind = "rendered"

====
